---- MODULE Spec2Model ----
(***************************************************************************)
(* Model of the Morloc lexer (src/morloc.py): the rule tables of           *)
(* MorlocLexer.tokens and the RegexLexer driver that MorlocLexer inherits  *)
(* (pygments.lexer.RegexLexer, imported at src/morloc.py:11 and used as    *)
(* the base class at src/morloc.py:32).                                    *)
(*                                                                         *)
(* A text is a sequence of one-character strings.  Positions are 0-based   *)
(* as in Python: the character at position p is s[p + 1].                  *)
(***************************************************************************)
EXTENDS Integers, Sequences, FiniteSets, TLC

VARIABLES text, pos, statestack, out, found, last, done, calls

vars == <<text, pos, statestack, out, found, last, done, calls>>

(***************************************************************************)
(* Character classes (ASCII part of the classes the patterns use).         *)
(***************************************************************************)
\* uni.Ll, restricted to ASCII
Ll == {"a", "b", "c", "d", "e", "f", "g", "h", "i", "j", "k", "l", "m",
       "n", "o", "p", "q", "r", "s", "t", "u", "v", "w", "x", "y", "z"}

\* uni.Lu, restricted to ASCII
Lu == {"A", "B", "C", "D", "E", "F", "G", "H", "I", "J", "K", "L", "M",
       "N", "O", "P", "Q", "R", "S", "T", "U", "V", "W", "X", "Y", "Z"}

\* \d
Digit == {"0", "1", "2", "3", "4", "5", "6", "7", "8", "9"}

\* \w
Word == Ll \cup Lu \cup Digit \cup {"_"}

\* \s
Space == {" ", "\t", "\n"}

\* [0-7]
OctDigit == {"0", "1", "2", "3", "4", "5", "6", "7"}

\* [\da-fA-F]
HexDigit == Digit \cup {"a", "b", "c", "d", "e", "f", "A", "B", "C", "D", "E", "F"}

(***************************************************************************)
(* Regular expressions as trees, and Python's backtracking matcher.        *)
(***************************************************************************)
Set(S)  == [t |-> "set", s |-> S]            \* [...]
NSet(S) == [t |-> "nset", s |-> S]           \* [^...]
Ch(c)   == [t |-> "set", s |-> {c}]          \* a literal character
Str(cs) == [t |-> "str", s |-> cs]           \* a literal string
Cat(rs) == [t |-> "cat", rs |-> rs]          \* r1 r2 ...
Alt(rs) == [t |-> "alt", rs |-> rs]          \* r1 | r2 | ...
Star(r) == [t |-> "star", r |-> r]           \* r*  (greedy)
Plus(r) == [t |-> "plus", r |-> r]           \* r+  (greedy)
Opt(r)  == [t |-> "opt", r |-> r]            \* r?  (greedy)
Bol_None == [t |-> "str", s |-> <<>>]        \* no anchor
Bol     == [t |-> "bol"]                     \* ^   (re.MULTILINE)
Eol     == [t |-> "eol"]                     \* $   (re.MULTILINE)
Wb      == [t |-> "wb"]                      \* \b
Dot_All == NSet({})                          \* .   under re.DOTALL
Dot     == NSet({"\n"})                      \* .   (no re.DOTALL)

IsWordAt(s, p) == p >= 0 /\ p < Len(s) /\ s[p + 1] \in Word

\* the text s has the characters w at position p
StartsWith(s, p, w) == p + Len(w) <= Len(s) /\ SubSeq(s, p + 1, p + Len(w)) = w

RECURSIVE Ends(_, _, _), CatEnds(_, _, _, _, _), AltEnds(_, _, _, _), StarEnds(_, _, _, _, _)

\* The recursive operators below take the value of each argument once, by
\* binding it over a one-element set, before they use it.

\* The positions at which a match of r that starts at p can end, in the order
\* in which Python's backtracking matcher tries them (the first is the match
\* that re's match() reports when nothing follows r).
Ends(r0, s, p0) ==
  LET At(r, p) ==
        CASE r.t = "set"  -> IF p < Len(s) /\ s[p + 1] \in r.s THEN <<p + 1>> ELSE <<>>
          [] r.t = "nset" -> IF p < Len(s) /\ s[p + 1] \notin r.s THEN <<p + 1>> ELSE <<>>
          [] r.t = "str"  -> IF StartsWith(s, p, r.s) THEN <<p + Len(r.s)>> ELSE <<>>
          [] r.t = "bol"  -> IF p = 0 \/ s[p] = "\n" THEN <<p>> ELSE <<>>
          [] r.t = "eol"  -> IF p = Len(s) \/ s[p + 1] = "\n" THEN <<p>> ELSE <<>>
          [] r.t = "wb"   -> IF IsWordAt(s, p - 1) # IsWordAt(s, p) THEN <<p>> ELSE <<>>
          [] r.t = "cat"  -> CatEnds(r.rs, 1, s, <<p>>, 1)
          [] r.t = "alt"  -> AltEnds(r.rs, 1, s, p)
          [] r.t = "opt"  -> Ends(r.r, s, p) \o <<p>>
          [] r.t = "star" -> StarEnds(r.r, s, p, Ends(r.r, s, p), 1) \o <<p>>
          [] r.t = "plus" -> StarEnds(r.r, s, p, Ends(r.r, s, p), 1)
  IN  CHOOSE es \in {At(r, p) : r \in {r0}, p \in {p0}} : TRUE

\* rs[i..] matched from each of the start positions ps[k..], in order.
CatEnds(rs0, i0, s, ps0, k0) ==
  LET At(rs, i, ps, k) ==
        IF i > Len(rs) THEN ps
        ELSE IF k > Len(ps) THEN <<>>
        ELSE CatEnds(rs, i + 1, s, Ends(rs[i], s, ps[k]), 1) \o CatEnds(rs, i, s, ps, k + 1)
  IN  CHOOSE es \in {At(rs, i, ps, k) : rs \in {rs0}, i \in {i0}, ps \in {ps0}, k \in {k0}} : TRUE

\* the alternatives rs[i..] tried in order at p.
AltEnds(rs0, i0, s, p0) ==
  LET At(rs, i, p) ==
        IF i > Len(rs) THEN <<>>
        ELSE Ends(rs[i], s, p) \o AltEnds(rs, i + 1, s, p)
  IN  CHOOSE es \in {At(rs, i, p) : rs \in {rs0}, i \in {i0}, p \in {p0}} : TRUE

\* after one iteration of r ended at es[k], further iterations (greedy) and
\* then that end itself; an iteration that consumed nothing is not repeated.
StarEnds(r0, s, p0, es0, k0) ==
  LET At(r, p, es, k) ==
        IF k > Len(es) THEN <<>>
        ELSE (IF es[k] > p
              THEN StarEnds(r, s, es[k], Ends(r, s, es[k]), 1) \o <<es[k]>>
              ELSE <<es[k]>>)
             \o StarEnds(r, s, p, es, k + 1)
  IN  CHOOSE qs \in {At(r, p, es, k) : r \in {r0}, p \in {p0}, es \in {es0}, k \in {k0}} : TRUE

(***************************************************************************)
(* Token types (pygments.token), by name.                                  *)
(***************************************************************************)
Error       == "Error"
Whitespace  == "Whitespace"
Text        == "Text"
Name        == "Name"
Punctuation == "Punctuation"
String      == "String"
Keyword     == "Keyword"

\* Keyword.* tokens
IsKeyword(tok) == tok \in {"Keyword", "Keyword.Reserved", "Keyword.Type"}

\* Comment.* tokens
IsComment(tok) == tok \in {"Comment", "Comment.Single", "Comment.Multiline"}

(***************************************************************************)
(* Rules.  A rule is the source tuple (pattern, action, *rest):            *)
(*   groups  the pattern; for a bygroups action, its capture groups in     *)
(*           order (every grouped pattern of the lexer is a concatenation  *)
(*           of its groups; a leading ^ is kept in front of group 1);      *)
(*   toks    the token type, or the bygroups token types;                  *)
(*   by      whether the action is bygroups(...);                          *)
(*   tdef    the tuple's elements after the action, as written.            *)
(***************************************************************************)
Rule(re, tok)             == [groups |-> <<re>>, toks |-> <<tok>>, by |-> FALSE, tdef |-> <<>>]
RuleT(re, tok, rest)      == [groups |-> <<re>>, toks |-> <<tok>>, by |-> FALSE, tdef |-> rest]
ByGroups(gs, toks)        == [groups |-> gs, toks |-> toks, by |-> TRUE, tdef |-> <<>>]
ByGroupsT(gs, toks, rest) == [groups |-> gs, toks |-> toks, by |-> TRUE, tdef |-> rest]

\* [A-Za-z]
Alpha == Ll \cup Lu

\* \d(_*\d)*
DecDigits == Cat(<<Set(Digit), Star(Cat(<<Star(Ch("_")), Set(Digit)>>))>>)

\* [\da-fA-F](_*[\da-fA-F])*
HexDigits == Cat(<<Set(HexDigit), Star(Cat(<<Star(Ch("_")), Set(HexDigit)>>))>>)

\* 0[xX]_*
HexPrefix == Cat(<<Ch("0"), Set({"x", "X"}), Star(Ch("_"))>>)

\* DecExponent without the optional sign
DecExponent_NoSign == Cat(<<Set({"e", "E"}), DecDigits>>)

\* [eE][+-]?\d(_*\d)*
DecExponent == Cat(<<Set({"e", "E"}), Opt(Set({"+", "-"})), DecDigits>>)

\* [pP][+-]?\d(_*\d)*
BinExponent == Cat(<<Set({"p", "P"}), Opt(Set({"+", "-"})), DecDigits>>)

\* "[^"]+"
Quoted == Cat(<<Ch("\""), Plus(NSet({"\""})), Ch("\"")>>)

\* [:!#$%&*+.\\/<=>?@^|~-]
OpChar == {":", "!", "#", "$", "%", "&", "*", "+", ".", "\\", "/", "<", "=", ">",
           "?", "@", "^", "|", "~", "-"}

root ==
  << Rule(Str(<<"w", "h", "e", "r", "e">>), "Keyword.Reserved"),
     Rule(Plus(Set(Space)), Whitespace),
     Rule(Cat(<<Str(<<"-", "-">>), Star(Dot), Eol>>), "Comment.Single"),
     RuleT(Str(<<"{", "-">>), "Comment.Multiline", <<"comment">>),
     RuleT(Cat(<<Wb, Str(<<"m", "o", "d", "u", "l", "e">>), Wb>>),
           "Keyword.Reserved", <<"module">>),
     ByGroupsT(<<Str(<<"s", "o", "u", "r", "c", "e">>), Plus(Set(Space)), Plus(Set(Alpha)),
                 Star(Set(Space)), Ch("(")>>,
               <<"Keyword.Reserved", Whitespace, Name, Whitespace, Text>>,
               <<"#push", "sourcelist">>),
     ByGroupsT(<<Str(<<"s", "o", "u", "r", "c", "e">>), Plus(Set(Space)), Plus(Set(Alpha)),
                 Plus(Set(Space)),
                 Str(<<"f", "r", "o", "m">>), Plus(Set(Space)), Quoted, Star(Set(Space)), Ch("(")>>,
               <<"Keyword.Reserved", Whitespace, Name, Whitespace,
                 "Keyword.Reserved", Whitespace, String, Whitespace, Text>>,
               <<"#push", "sourcelist">>),
     ByGroups(<<Str(<<"t", "y", "p", "e">>), Plus(Set(Space)),
                Cat(<<Set(Lu), Star(Set(Alpha))>>)>>,
              <<"Keyword.Reserved", Whitespace, Name>>),
     ByGroups(<<Cat(<<Bol, Str(<<"e", "x", "p", "o", "r", "t">>)>>), Plus(Set(Space)),
                Set(Word \cup {"+"})>>,
              <<"Keyword.Reserved", Whitespace, Name>>),
     ByGroups(<<Cat(<<Wb, Str(<<"i", "m", "p", "o", "r", "t">>), Wb>>), Plus(Set(Space)),
                Cat(<<Set(Alpha \cup {"."}), Plus(Set(Word))>>)>>,
              <<"Keyword.Reserved", Whitespace, Name>>),
     ByGroupsT(<<Cat(<<Wb, Str(<<"i", "m", "p", "o", "r", "t">>), Wb>>), Ch("(")>>,
               <<"Keyword.Reserved", Punctuation>>,
               <<"importList">>),
     ByGroups(<<Alt(<<Str(<<"o", "b", "j", "e", "c", "t">>), Str(<<"t", "a", "b", "l", "e">>),
                      Str(<<"r", "e", "c", "o", "r", "d">>)>>), Plus(Set(Space)),
                Cat(<<Set(Lu), Plus(Set(Word))>>), Star(Set(Space)), Ch("=")>>,
              <<"Keyword.Reserved", Whitespace, Name, Whitespace, "Operator.Word">>),
     Rule(Cat(<<Set(Ll), Star(Set(Word \cup {"'"}))>>), Name),
     Rule(Cat(<<Set(Lu), Star(Set(Word \cup {"'"}))>>), Name),
     Rule(Cat(<<Ch("'"), Ch("["), Star(NSet({"]"})), Ch("]")>>), "Keyword.Type"),
     Rule(Cat(<<Ch("'"), Ch("("), Star(NSet({")"})), Ch(")")>>), "Keyword.Type"),
     Rule(Cat(<<Ch("'"), Plus(Set(OpChar))>>), "Keyword.Type"),
     Rule(Alt(<<Str(<<"<", "-">>), Str(<<":", ":">>), Str(<<"-", ">">>), Str(<<"=", ">">>),
                Ch("="), Ch("."), Ch("\\"), Ch("@")>>),
          "Operator.Word"),
     Rule(Cat(<<HexPrefix, HexDigits, Star(Ch("_")), BinExponent>>), "Number.Float"),
     Rule(Cat(<<HexPrefix, HexDigits, Ch("."), HexDigits,
                Opt(Cat(<<Star(Ch("_")), BinExponent>>))>>), "Number.Float"),
     Rule(Cat(<<DecDigits, Star(Ch("_")), DecExponent>>), "Number.Float"),
     Rule(Cat(<<DecDigits, Ch("."), DecDigits,
                Opt(Cat(<<Star(Ch("_")), DecExponent>>))>>), "Number.Float"),
     Rule(Cat(<<Ch("0"), Set({"b", "B"}), Star(Ch("_")), Set({"0", "1"}),
                Star(Cat(<<Star(Ch("_")), Set({"0", "1"})>>))>>), "Number.Bin"),
     Rule(Cat(<<Ch("0"), Set({"o", "O"}), Star(Ch("_")), Set(OctDigit),
                Star(Cat(<<Star(Ch("_")), Set(OctDigit)>>))>>), "Number.Oct"),
     Rule(Cat(<<HexPrefix, HexDigits>>), "Number.Hex"),
     Rule(DecDigits, "Number.Integer"),
     RuleT(Ch("\""), String, <<"string">>),
     Rule(Str(<<"[", "]">>), "Keyword.Type"),
     Rule(Str(<<"(", ")">>), "Name.Builtin"),
     \* [][(),;`{}]  (the backquote cannot be written in a string here and is
     \* not a character of any modelled text)
     Rule(Set({"]", "[", "(", ")", ",", ";", "{", "}"}), Punctuation) >>

\* comment without the push at a nested {-
comment_Flat ==
  << Rule(NSet({"-", "{", "}"}), "Comment.Multiline"),
     Rule(Str(<<"{", "-">>), "Comment.Multiline"),
     RuleT(Str(<<"-", "}">>), "Comment.Multiline", <<"#pop">>),
     Rule(Set({"-", "{", "}"}), "Comment.Multiline") >>

comment ==
  << Rule(NSet({"-", "{", "}"}), "Comment.Multiline"),
     RuleT(Str(<<"{", "-">>), "Comment.Multiline", <<"#push">>),
     RuleT(Str(<<"-", "}">>), "Comment.Multiline", <<"#pop">>),
     Rule(Set({"-", "{", "}"}), "Comment.Multiline") >>

\* module with an upper-case first letter in the name rule
module_Upper ==
  << Rule(Plus(Set(Space)), Whitespace),
     RuleT(Cat(<<Set(Lu), Star(Set(Word \cup {"."}))>>), Name, <<"#pop">>) >>

\* module with \s* for \s+
module_EmptyWs ==
  << Rule(Star(Set(Space)), Whitespace),
     RuleT(Cat(<<Set(Ll), Star(Set(Word \cup {"."}))>>), Name, <<"#pop">>) >>

module ==
  << Rule(Plus(Set(Space)), Whitespace),
     RuleT(Cat(<<Set(Ll), Star(Set(Word \cup {"."}))>>), Name, <<"#pop">>) >>

\* string whose text rule stops at a newline
string_OneLine ==
  << Rule(Plus(NSet({"\\", "\"", "\n"})), String),
     RuleT(Ch("\\"), "String.Escape", <<"escape">>),
     RuleT(Ch("\""), String, <<"#pop">>) >>

string ==
  << Rule(Plus(NSet({"\\", "\""})), String),
     RuleT(Ch("\\"), "String.Escape", <<"escape">>),
     RuleT(Ch("\""), String, <<"#pop">>) >>

\* escape whose first rule does not pop
escape_Stay ==
  << Rule(Set({"a", "b", "f", "n", "r", "t", "v", "\"", "'", "&", "\\"}), "String.Escape"),
     RuleT(Cat(<<Ch("^"), Set({"]", "["} \cup Lu \cup {"@", "^", "_"})>>),
           "String.Escape", <<"#pop">>),
     RuleT(Cat(<<Ch("o"), Plus(Set(OctDigit))>>),
           "String.Escape", <<"#pop">>),
     RuleT(Cat(<<Ch("x"), Plus(Set(HexDigit))>>), "String.Escape", <<"#pop">>),
     RuleT(Plus(Set(Digit)), "String.Escape", <<"#pop">>),
     ByGroupsT(<<Plus(Set(Space)), Ch("\\")>>, <<Whitespace, "String.Escape">>,
               <<"#pop">>) >>

\* escape with one token type too few in the bygroups of its last rule
escape_ShortGroups ==
  << RuleT(Set({"a", "b", "f", "n", "r", "t", "v", "\"", "'", "&", "\\"}),
           "String.Escape", <<"#pop">>),
     RuleT(Cat(<<Ch("^"), Set({"]", "["} \cup Lu \cup {"@", "^", "_"})>>),
           "String.Escape", <<"#pop">>),
     RuleT(Cat(<<Ch("o"), Plus(Set(OctDigit))>>),
           "String.Escape", <<"#pop">>),
     RuleT(Cat(<<Ch("x"), Plus(Set(HexDigit))>>), "String.Escape", <<"#pop">>),
     RuleT(Plus(Set(Digit)), "String.Escape", <<"#pop">>),
     ByGroupsT(<<Plus(Set(Space)), Ch("\\")>>, <<Whitespace>>,
               <<"#pop">>) >>

escape ==
  << RuleT(Set({"a", "b", "f", "n", "r", "t", "v", "\"", "'", "&", "\\"}),
           "String.Escape", <<"#pop">>),
     RuleT(Cat(<<Ch("^"), Set({"]", "["} \cup Lu \cup {"@", "^", "_"})>>),
           "String.Escape", <<"#pop">>),
     RuleT(Cat(<<Ch("o"), Plus(Set(OctDigit))>>),
           "String.Escape", <<"#pop">>),
     RuleT(Cat(<<Ch("x"), Plus(Set(HexDigit))>>), "String.Escape", <<"#pop">>),
     RuleT(Plus(Set(Digit)), "String.Escape", <<"#pop">>),
     ByGroupsT(<<Plus(Set(Space)), Ch("\\")>>, <<Whitespace, "String.Escape">>,
               <<"#pop">>) >>

\* sourcelist with the alias rule before the quoted-string rule
sourcelist_AliasFirst ==
  << Rule(Plus(Set(Space)), Whitespace),
     RuleT(Ch("("), Text, <<"#push">>),
     RuleT(Ch(")"), Text, <<"#pop">>),
     ByGroups(<<Quoted, Plus(Set(Space)), Str(<<"a", "s">>), Plus(Set(Space)),
                Plus(Set(Word))>>,
              <<String, Whitespace, Keyword, Whitespace, Name>>),
     Rule(Quoted, String),
     Rule(Ch(","), Punctuation) >>

sourcelist ==
  << Rule(Plus(Set(Space)), Whitespace),
     RuleT(Ch("("), Text, <<"#push">>),
     RuleT(Ch(")"), Text, <<"#pop">>),
     Rule(Quoted, String),
     Rule(Ch(","), Punctuation),
     ByGroups(<<Quoted, Plus(Set(Space)), Str(<<"a", "s">>), Plus(Set(Space)),
                Plus(Set(Word))>>,
              <<String, Whitespace, Keyword, Whitespace, Name>>) >>

\* importList without the push at (
importList_Flat ==
  << Rule(Plus(Set(Space)), Whitespace),
     Rule(Ch("("), Text),
     RuleT(Ch(")"), Text, <<"#pop">>),
     Rule(Cat(<<Set(Alpha), Star(Set(Word))>>), Name),
     Rule(Ch(","), Punctuation) >>

importList ==
  << Rule(Plus(Set(Space)), Whitespace),
     RuleT(Ch("("), Text, <<"#push">>),
     RuleT(Ch(")"), Text, <<"#pop">>),
     Rule(Cat(<<Set(Alpha), Star(Set(Word))>>), Name),
     Rule(Ch(","), Punctuation) >>

\* MorlocLexer.tokens: the rule list of each lexer state
States == {"root", "comment", "module", "string", "escape", "sourcelist", "importList"}

tokens ==
  [st \in States |->
     CASE st = "root"       -> root
       [] st = "comment"    -> comment
       [] st = "module"     -> module
       [] st = "string"     -> string
       [] st = "escape"     -> escape
       [] st = "sourcelist" -> sourcelist
       [] st = "importList" -> importList]

(***************************************************************************)
(* Rule matching: rexmatch(text, pos) and the action's spans.              *)
(***************************************************************************)
RECURSIVE MatchFrom(_, _, _, _), FirstOK(_, _, _, _, _)

\* The groups gs[i..] matched in sequence from p: <<>> when they do not match,
\* else <<bs>> with bs the end position of each group in the match Python
\* finds (the first in backtracking order).
MatchFrom(gs0, i0, s, p0) ==
  LET At(gs, i, p) ==
        IF i > Len(gs) THEN << <<>> >>
        ELSE FirstOK(gs, i, s, Ends(gs[i], s, p), 1)
  IN  CHOOSE m \in {At(gs, i, p) : gs \in {gs0}, i \in {i0}, p \in {p0}} : TRUE

FirstOK(gs0, i0, s, es0, k0) ==
  LET At(gs, i, es, k) ==
        IF k > Len(es) THEN <<>>
        ELSE LET Rest(r) == IF r # <<>> THEN << <<es[k]>> \o r[1] >>
                            ELSE FirstOK(gs, i, s, es, k + 1)
             IN  CHOOSE m \in {Rest(r) : r \in {MatchFrom(gs, i + 1, s, es[k])}} : TRUE
  IN  CHOOSE m \in {At(gs, i, es, k) : gs \in {gs0}, i \in {i0}, es \in {es0}, k \in {k0}} : TRUE

\* rexmatch(text, pos) of a rule: <<>> (None) or <<group ends>>
RexMatch(rule, s, p) == MatchFrom(rule.groups, 1, s, p)

\* m.end() of a match bs
MatchEnd(bs) == bs[Len(bs)]

Span(s, a, b, tok) == [start |-> a, tok |-> tok, val |-> SubSeq(s, a + 1, b)]

RECURSIVE GroupSpans(_, _, _, _, _)

\* GroupSpans yielding a span for an empty group too
GroupSpans_All(toks0, bs0, i0, s, p0) ==
  LET At(toks, bs, i, p) ==
        IF i > Len(toks) THEN <<>>
        ELSE <<Span(s, IF i = 1 THEN p ELSE bs[i - 1], bs[i], toks[i])>>
             \o GroupSpans(toks, bs, i + 1, s, p)
  IN  CHOOSE sp \in {At(toks, bs, i, p) : toks \in {toks0}, bs \in {bs0}, i \in {i0}, p \in {p0}} : TRUE

\* bygroups(...): one span per group whose text is not empty
GroupSpans(toks0, bs0, i0, s, p0) ==
  LET At(toks, bs, i, p) ==
        IF i > Len(toks) THEN <<>>
        ELSE (IF bs[i] > (IF i = 1 THEN p ELSE bs[i - 1])
              THEN <<Span(s, IF i = 1 THEN p ELSE bs[i - 1], bs[i], toks[i])>>
              ELSE <<>>)
             \o GroupSpans(toks, bs, i + 1, s, p)
  IN  CHOOSE sp \in {At(toks, bs, i, p) : toks \in {toks0}, bs \in {bs0}, i \in {i0}, p \in {p0}} : TRUE

\* the spans the rule's action yields for the match bs found at p
ActionSpans(rule, bs, s, p) ==
  IF rule.by THEN GroupSpans(rule.toks, bs, 1, s, p)
  ELSE <<Span(s, p, MatchEnd(bs), rule.toks[1])>>

(***************************************************************************)
(* State transitions.                                                      *)
(***************************************************************************)
\* RegexLexer._process_new_state
ProcessNewState(new_state) ==
  IF new_state = "#pop" THEN [k |-> "int", n |-> -1]
  ELSE IF new_state \in States THEN [k |-> "tuple", ss |-> <<new_state>>]
  ELSE [k |-> "#push"]

\* RegexLexer._process_state: a 2-tuple has no new state; otherwise the new
\* state is made from the tuple's third element (tdef[2]) alone.
NewState(rule) ==
  IF Len(rule.tdef) = 0 THEN [k |-> "none"] ELSE ProcessNewState(rule.tdef[1])

\* Transition popping at the bottom of the stack
Transition_PopBottom(stack, ns) ==
  CASE ns.k = "none"  -> stack
    [] ns.k = "tuple" -> stack \o ns.ss
    [] ns.k = "int"   -> IF -ns.n >= Len(stack) THEN SubSeq(stack, 1, 1)
                         ELSE SubSeq(stack, 1 - ns.n, Len(stack))
    [] ns.k = "#push" -> Append(stack, stack[Len(stack)])

\* the state transition of get_tokens_unprocessed
Transition(stack, ns) ==
  CASE ns.k = "none"  -> stack
    [] ns.k = "tuple" -> stack \o ns.ss
    [] ns.k = "int"   -> IF -ns.n >= Len(stack) THEN SubSeq(stack, 1, 1)
                         ELSE SubSeq(stack, 1, Len(stack) + ns.n)
    [] ns.k = "#push" -> Append(stack, stack[Len(stack)])

Top(stack) == stack[Len(stack)]

RECURSIVE LongestIn(_, _, _, _, _)

\* among the rules lo..hi, the one with the longest match at p (the earlier
\* one of two equally long)
LongestIn(rules0, lo0, hi0, s, p0) ==
  LET One(lo, r) == IF r # <<>> THEN [i |-> lo, m |-> r[1]] ELSE [i |-> 0, m |-> <<>>]
      Pick(f, g) ==
        IF f.i = 0 THEN g
        ELSE IF g.i # 0 /\ MatchEnd(g.m) > MatchEnd(f.m) THEN g
        ELSE f
      At(rules, lo, hi, p) ==
        IF lo > hi THEN [i |-> 0, m |-> <<>>]
        ELSE IF lo = hi
          THEN CHOOSE f \in {One(lo, r) : r \in {RexMatch(rules[lo], s, p)}} : TRUE
        ELSE CHOOSE h \in {Pick(f, g) :
                             f \in {LongestIn(rules, lo, (lo + hi) \div 2, s, p)},
                             g \in {LongestIn(rules, (lo + hi) \div 2 + 1, hi, s, p)}} : TRUE
  IN  CHOOSE f \in {At(rules, lo, hi, p) : rules \in {rules0}, lo \in {lo0}, hi \in {hi0},
                                           p \in {p0}} : TRUE

\* Scan choosing the rule with the longest match
ScanLongest(rules0, i0, s, p0) == LongestIn(rules0, i0, Len(rules0), s, p0)

RECURSIVE ScanIn(_, _, _, _, _)

\* for rexmatch, action, new_state in statetokens, over the rules lo..hi: the
\* first of them that matches at p, as [i |-> its index, m |-> its match];
\* i = 0 when none matches.  The rules are tried in order and no rule after
\* the first match is tried; the range is halved to keep the evaluation
\* shallow.
ScanIn(rules0, lo0, hi0, s, p0) ==
  LET One(lo, r) == IF r # <<>> THEN [i |-> lo, m |-> r[1]] ELSE [i |-> 0, m |-> <<>>]
      At(rules, lo, hi, p) ==
        IF lo > hi THEN [i |-> 0, m |-> <<>>]
        ELSE IF lo = hi
          THEN CHOOSE f \in {One(lo, r) : r \in {RexMatch(rules[lo], s, p)}} : TRUE
        ELSE LET Or(f) == IF f.i # 0 THEN f
                          ELSE ScanIn(rules, (lo + hi) \div 2 + 1, hi, s, p)
             IN  CHOOSE g \in {Or(f) : f \in {ScanIn(rules, lo, (lo + hi) \div 2, s, p)}} : TRUE
  IN  CHOOSE f \in {At(rules, lo, hi, p) : rules \in {rules0}, lo \in {lo0}, hi \in {hi0},
                                           p \in {p0}} : TRUE

\* the first rule from i on that matches at p
Scan(rules0, i0, s, p0) == ScanIn(rules0, i0, Len(rules0), s, p0)

FirstMatch(s, p, stack) == Scan(tokens[Top(stack)], 1, s, p)

(***************************************************************************)
(* Inputs: the texts given to the lexer.                                   *)
(***************************************************************************)
\* the longest sequence of units drawn from a family of units
MaxUnits == 3

\* the longest sequence of block-comment delimiters
MaxDelims == 6

RECURSIVE SeqsUpTo(_, _)
SeqsUpTo(S, n) ==
  IF n = 0 THEN {<<>>}
  ELSE LET T == SeqsUpTo(S, n - 1)
       IN  T \cup {Append(t, c) : t \in T, c \in S}

RECURSIVE Flatten(_)
Flatten(ss) == IF ss = <<>> THEN <<>> ELSE Head(ss) \o Flatten(Tail(ss))

\* the texts made of at most n units of U
Texts(U, n) == {Flatten(us) : us \in SeqsUpTo(U, n)}

\* block comments: {-  -}  }  a
CommentUnits ==
  { <<"{", "-">>, <<"-", "}">>, <<"}">>, <<"a">> }

\* block-comment delimiters: {-  -}
DelimUnits ==
  { <<"{", "-">>, <<"-", "}">> }

\* string literals and escapes: "  \  newline  space
StringUnits ==
  { <<"\"">>, <<"\\">>, <<"\n">>, <<" ">> }

\* keywords inside identifiers, and a character no root rule matches
WhereUnits ==
  { <<"w", "h", "e", "r", "e">>, <<"a", "b", "o", "u", "t", "s">>, <<"s", "o", "m", "e">>,
    <<"#">> }

\* module declarations
ModuleUnits ==
  { <<"m", "o", "d", "u", "l", "e">>, <<" ">>, <<"F", "o", "o", ".", "B", "a", "r">>,
    <<"f", "o", "o", ".", "b", "a", "r">> }

\* source imports
SourceUnits ==
  { <<"s", "o", "u", "r", "c", "e", " ", "R", " ", "(">>,
    <<"s", "o", "u", "r", "c", "e", " ", "R", " ", "f", "r", "o", "m", " ", "\"", "p", "\"", " ", "(">>,
    <<"\"", "f", "\"", " ", "a", "s", " ", "g">>, <<")">> }

\* import lists
ImportUnits ==
  { <<"i", "m", "p", "o", "r", "t", " ", "(">>, <<"i", "m", "p", "o", "r", "t", "(">>,
    <<"A", ",", " ", "B">>, <<")">> }

\* decimal floats: 42.5  e10  E-3
FloatUnits ==
  { <<"4", "2", ".", "5">>, <<"e", "1", "0">>, <<"E", "-", "3">> }

\* line comments: --  newline  {-"x
LineUnits ==
  { <<"-", "-">>, <<"\n">>, <<"{", "-", "\"", "x">> }

\* exports: export  foo  newline
ExportUnits ==
  { <<"e", "x", "p", "o", "r", "t", " ">>, <<"f", "o", "o">>, <<"\n">> }

\* parentheses after import(
ParenUnits == { <<"(">>, <<")">> }

ImportOpen == <<"i", "m", "p", "o", "r", "t", "(">>

ImportNests == {ImportOpen \o t : t \in Texts(ParenUnits, MaxDelims)}

\* whole texts
Scenarios ==
  {
    <<"{", "-", "a", "{", "-", "a", "{", "-", "a", "-", "}", "a", "-", "}", "a", "-", "}", "a">>,
    <<"{", "-", "{", "-", "}", "-", "}">>,
    <<"{", "-", "-", "{", "-", "}", "-", "-", "}", "-", "}">>,
    <<"w", "h", "e", "r", "e", "a", "b", "o", "u", "t", "s">>,
    <<"s", "o", "u", "r", "c", "e", " ", "R", "(", "\"", "f", "\"", ")">>,
    <<"i", "m", "p", "o", "r", "t", "(", "(", "A", ")", ",", "B", ")">>,
    <<"m", "o", "d", "u", "l", "e", "\n", "\t", "f", "o", "o">>,
    <<"\"", "a", "\\", "\n", "\\", "z", "\"">>, <<"\"", "\\", "n", "\"">>,
    <<"\"", "\\", "x", "4", "f", "\\", "o", "1", "7", "\\", "6", "5", "\\", "^", "A", "\\", "z", "\"">>,
    <<" ", "e", "x", "p", "o", "r", "t", " ", "f", "o", "o">>,
    <<"e", "x", "p", "o", "r", "t", "\n", "\t", "+", "f">>,
    <<"r", "e", "c", "o", "r", "d", " ", "A", "b", "=", "t", "a", "b", "l", "e", " ", "C", "d", " ", "=">> }

Inputs ==
  Texts(CommentUnits, MaxUnits)
  \cup Texts(DelimUnits, MaxDelims)
  \cup Texts(StringUnits, MaxUnits)
  \cup Texts(WhereUnits, MaxUnits)
  \cup Texts(ModuleUnits, MaxUnits)
  \cup Texts(SourceUnits, MaxUnits)
  \cup Texts(ImportUnits, MaxUnits)
  \cup Texts(FloatUnits, MaxUnits)
  \cup Texts(LineUnits, MaxUnits)
  \cup Texts(ExportUnits, MaxUnits)
  \cup ImportNests
  \cup Scenarios

(***************************************************************************)
(* RegexLexer.get_tokens_unprocessed(text), stack = ('root',).             *)
(*                                                                         *)
(* found is the outcome of the loop over the active state's rules at the   *)
(* cursor (for rexmatch, action, new_state in statetokens); each step acts *)
(* on it and runs the loop again at the new cursor.  last records the step *)
(* just taken: its kind, the rule applied, and the stack, the cursor and   *)
(* the number of spans yielded before it.                                  *)
(*                                                                         *)
(* get_tokens_unprocessed is a generator: text, pos and statestack are     *)
(* locals of the call.  calls holds the other calls that have been started *)
(* and are suspended, each with its own locals.                            *)
(***************************************************************************)
Start(texts) ==
  /\ text \in texts
  /\ pos = 0
  /\ statestack = <<"root">>
  /\ out = <<>>
  /\ found = FirstMatch(text, 0, <<"root">>)
  /\ last = [kind |-> "init", rule |-> 0, stack |-> <<"root">>, pos |-> 0, nout |-> 0]
  /\ done = FALSE
  /\ calls = <<>>

Init == Start(Inputs)

\* a rule of the active state matches at pos: yield its spans, move pos to
\* m.end(), apply its new state
MatchStep ==
  /\ ~done
  /\ found.i # 0
  /\ LET rule == tokens[Top(statestack)][found.i]
         spans == ActionSpans(rule, found.m, text, pos)
     IN  /\ out' = out \o spans
         /\ pos' = MatchEnd(found.m)
         /\ statestack' = Transition(statestack, NewState(rule))
         /\ last' = [kind |-> "rule", rule |-> found.i, stack |-> statestack,
                     pos |-> pos, nout |-> Len(out)]
  /\ found' = FirstMatch(text, pos', statestack')
  /\ UNCHANGED <<text, done, calls>>

\* no rule matches and text[pos] is a newline: reset the stack to root
NewlineStep ==
  /\ ~done
  /\ found.i = 0
  /\ pos < Len(text)
  /\ text[pos + 1] = "\n"
  /\ out' = Append(out, Span(text, pos, pos + 1, Whitespace))
  /\ pos' = pos + 1
  /\ statestack' = <<"root">>
  /\ last' = [kind |-> "newline", rule |-> 0, stack |-> statestack, pos |-> pos, nout |-> Len(out)]
  /\ found' = FirstMatch(text, pos', statestack')
  /\ UNCHANGED <<text, done, calls>>

\* ErrorStep resetting the stack as the newline branch does
ErrorStep_Reset ==
  /\ ~done
  /\ found.i = 0
  /\ pos < Len(text)
  /\ text[pos + 1] # "\n"
  /\ out' = Append(out, Span(text, pos, pos + 1, Error))
  /\ pos' = pos + 1
  /\ statestack' = <<"root">>
  /\ last' = [kind |-> "error", rule |-> 0, stack |-> statestack, pos |-> pos, nout |-> Len(out)]
  /\ found' = FirstMatch(text, pos', statestack')
  /\ UNCHANGED <<text, done, calls>>

\* no rule matches and text[pos] is another character: an Error span
ErrorStep ==
  /\ ~done
  /\ found.i = 0
  /\ pos < Len(text)
  /\ text[pos + 1] # "\n"
  /\ out' = Append(out, Span(text, pos, pos + 1, Error))
  /\ pos' = pos + 1
  /\ last' = [kind |-> "error", rule |-> 0, stack |-> statestack, pos |-> pos, nout |-> Len(out)]
  /\ found' = FirstMatch(text, pos', statestack)
  /\ UNCHANGED <<text, statestack, done, calls>>

\* EndOfInput only once the stack has unwound to [root]
EndOfInput_Unwound ==
  /\ ~done
  /\ found.i = 0
  /\ pos >= Len(text)
  /\ statestack = <<"root">>
  /\ done' = TRUE
  /\ last' = [kind |-> "end", rule |-> 0, stack |-> statestack, pos |-> pos, nout |-> Len(out)]
  /\ UNCHANGED <<text, pos, statestack, out, found, calls>>

\* no rule matches and text[pos] raises IndexError: the loop ends
EndOfInput ==
  /\ ~done
  /\ found.i = 0
  /\ pos >= Len(text)
  /\ done' = TRUE
  /\ last' = [kind |-> "end", rule |-> 0, stack |-> statestack, pos |-> pos, nout |-> Len(out)]
  /\ UNCHANGED <<text, pos, statestack, out, found, calls>>

Next == MatchStep \/ NewlineStep \/ ErrorStep \/ EndOfInput

Spec == Init /\ [][Next]_vars

\* the loop runs until it ends: no step is put off forever
FairSpec == Spec /\ WF_vars(Next)

(***************************************************************************)
(* get_tokens_unprocessed(text, stack=('root', 'sourcelist')): the call    *)
(* that starts with sourcelist as the active state.                        *)
(***************************************************************************)
\* the contents of a source list: "f" as g  )  "\<newline>  ,
ListUnits ==
  { <<"\"", "f", "\"", " ", "a", "s", " ", "g">>, <<")">>, <<"\"", "\\", "\n">>, <<",">> }

ListInit ==
  /\ text \in Texts(ListUnits, MaxUnits)
  /\ pos = 0
  /\ statestack = <<"root", "sourcelist">>
  /\ out = <<>>
  /\ found = FirstMatch(text, 0, statestack)
  /\ last = [kind |-> "init", rule |-> 0, stack |-> statestack, pos |-> 0, nout |-> 0]
  /\ done = FALSE
  /\ calls = <<>>

ListSpec == ListInit /\ [][Next]_vars

(***************************************************************************)
(* Several calls of get_tokens_unprocessed on one lexer, their steps       *)
(* interleaved as the callers draw from the generators.                    *)
(***************************************************************************)
\* the calls that may be started
MaxCalls == 3

\* "\<newline>  and  #{-
CallTexts == { <<"\"", "\\", "\n">>, <<"#", "{", "-">> }

\* the locals of the running call
Frame ==
  [text |-> text, pos |-> pos, statestack |-> statestack, out |-> out, found |-> found,
   last |-> last, done |-> done]

\* NewCall sharing the stack of the running call
NewCall_SharedStack ==
  /\ Len(calls) + 1 < MaxCalls
  /\ calls' = Append(calls, Frame)
  /\ text' \in CallTexts
  /\ pos' = 0
  /\ statestack' = statestack
  /\ out' = <<>>
  /\ found' = FirstMatch(text', 0, statestack')
  /\ last' = [kind |-> "init", rule |-> 0, stack |-> statestack', pos |-> 0, nout |-> 0]
  /\ done' = FALSE

\* the running call is suspended and a new call starts: pos = 0,
\* statestack = list(stack) with stack = ('root',)
NewCall ==
  /\ Len(calls) + 1 < MaxCalls
  /\ calls' = Append(calls, Frame)
  /\ text' \in CallTexts
  /\ pos' = 0
  /\ statestack' = <<"root">>
  /\ out' = <<>>
  /\ found' = FirstMatch(text', 0, statestack')
  /\ last' = [kind |-> "init", rule |-> 0, stack |-> statestack', pos |-> 0, nout |-> 0]
  /\ done' = FALSE

\* the running call is suspended and the i-th suspended call goes on
Resume(i) ==
  /\ calls' = [calls EXCEPT ![i] = Frame]
  /\ text' = calls[i].text
  /\ pos' = calls[i].pos
  /\ statestack' = calls[i].statestack
  /\ out' = calls[i].out
  /\ found' = calls[i].found
  /\ last' = calls[i].last
  /\ done' = calls[i].done

CallInit == Start(CallTexts)

CallNext ==
  \/ MatchStep
  \/ NewlineStep
  \/ ErrorStep
  \/ EndOfInput
  \/ NewCall
  \/ \E i \in 1..Len(calls) : Resume(i)

CallSpec == CallInit /\ [][CallNext]_vars

(***************************************************************************)
(* Properties.                                                             *)
(***************************************************************************)
\* the step just taken was a driver iteration that consumed input
Stepped == last.kind \in {"rule", "newline", "error"}

\* the spans yielded by the step just taken
LastSpans == SubSeq(out, last.nout + 1, Len(out))

\* the sequence of token types of the spans
Toks(spans) == [i \in 1..Len(spans) |-> spans[i].tok]

\* C1: the texts of the emitted spans, concatenated in emission order, are
\* the text consumed so far; each span starts where the previous one ended,
\* the first at offset 0; when tokenization stops, the whole text is covered.
C1_Coverage ==
  /\ Flatten([i \in 1..Len(out) |-> out[i].val]) = SubSeq(text, 1, pos)
  /\ \A i \in 1..Len(out) :
       out[i].start = IF i = 1 THEN 0 ELSE out[i - 1].start + Len(out[i - 1].val)
  /\ done => pos = Len(text)

\* a grouped rule has just split its match into three or more spans and the
\* whole text is consumed
C1_Witness ==
  /\ last.kind = "rule"
  /\ tokens[Top(last.stack)][last.rule].by
  /\ Len(out) - last.nout >= 3
  /\ pos = Len(text)

\* no rule of the active state matched at the cursor of the step just taken
Unmatched == Stepped /\ FirstMatch(text, last.pos, last.stack).i = 0

\* C2 as stated: whenever no rule of the active state matches at the cursor,
\* for every character (a newline included), exactly one Error span of length
\* 1 covering that character is emitted, the cursor advances by 1 and the
\* state stack is unchanged.
C2_AsStated ==
  Unmatched =>
    /\ Len(out) = last.nout + 1
    /\ out[Len(out)] = Span(text, last.pos, last.pos + 1, Error)
    /\ pos = last.pos + 1
    /\ statestack = last.stack

\* C2 amended: whenever no rule of the active state matches at the cursor,
\* exactly one span of length 1 covering the character at the cursor is
\* emitted and the cursor advances by 1; for a character other than a
\* newline the span is an Error span and the state stack is unchanged; for a
\* newline the span is not an Error span and the state stack is reset to
\* [root].
C2_Unmatched ==
  Unmatched =>
    /\ Len(out) = last.nout + 1
    /\ out[Len(out)].start = last.pos
    /\ out[Len(out)].val = <<text[last.pos + 1]>>
    /\ pos = last.pos + 1
    /\ IF text[last.pos + 1] # "\n"
       THEN out[Len(out)].tok = Error /\ statestack = last.stack
       ELSE out[Len(out)].tok # Error /\ statestack = <<"root">>

\* an unmatched character other than a newline met below a non-root state,
\* with text left to tokenize
C2_Witness ==
  /\ Unmatched
  /\ text[last.pos + 1] # "\n"
  /\ Len(last.stack) > 1
  /\ pos < Len(text)

\* C3: every driver iteration strictly increases the cursor, and no rule of
\* any state matches the empty string at the cursor.
C3_Progress ==
  /\ Stepped => pos > last.pos
  /\ \A st \in States : \A i \in 1..Len(tokens[st]) :
       LET r == RexMatch(tokens[st][i], text, pos)
       IN  r # <<>> => MatchEnd(r[1]) > pos

\* a rule has just matched below a non-root state before the end of the text
C3_Witness ==
  /\ last.kind = "rule"
  /\ Len(last.stack) > 1
  /\ pos < Len(text)

\* C4: tokenization eventually stops with the cursor at the end of the text.
C4_Termination == <>(done /\ pos = Len(text))

\* tokenization has stopped at the end of the text with a stack deeper than
\* [root]
C4_Witness ==
  /\ done
  /\ pos = Len(text)
  /\ Len(statestack) > 1

\* C5: the rule applied is the first rule of the active state, in declaration
\* order, that matches at the cursor, and its token type is the one emitted;
\* in root, text beginning with the letters where is emitted as the Keyword
\* span where, the rest being left to later steps.
C5_Precedence ==
  /\ last.kind = "rule" =>
       LET rules == tokens[Top(last.stack)]
       IN  /\ RexMatch(rules[last.rule], text, last.pos) # <<>>
           /\ \A j \in 1..(last.rule - 1) : RexMatch(rules[j], text, last.pos) = <<>>
           /\ ~rules[last.rule].by =>
                LastSpans = <<Span(text, last.pos, pos, rules[last.rule].toks[1])>>
  /\ (Stepped /\ Top(last.stack) = "root"
        /\ StartsWith(text, last.pos, <<"w", "h", "e", "r", "e">>)) =>
       /\ last.kind = "rule"
       /\ last.rule = 1
       /\ pos = last.pos + 5
       /\ LastSpans = <<Span(text, last.pos, last.pos + 5, "Keyword.Reserved")>>

\* the where rule has just been applied where the identifier rule declared
\* after it matches a longer text
C5_Witness ==
  /\ last.kind = "rule"
  /\ Top(last.stack) = "root"
  /\ last.rule = 1
  /\ LET r == RexMatch(root[13], text, last.pos)
     IN  r # <<>> /\ MatchEnd(r[1]) > pos

\* the category of a token type: Keyword.* is Keyword, Comment.* is Comment
Category(tok) ==
  IF IsKeyword(tok) THEN "Keyword" ELSE IF IsComment(tok) THEN "Comment" ELSE tok

\* the spans as (category, text) pairs
Cats(spans) ==
  [i \in 1..Len(spans) |-> [cat |-> Category(spans[i].tok), val |-> spans[i].val]]

\* the (category, text) pairs of a text cut at the given end positions
Cut(s, cats, ends) ==
  [i \in 1..Len(cats) |->
     [cat |-> cats[i], val |-> SubSeq(s, (IF i = 1 THEN 0 ELSE ends[i - 1]) + 1, ends[i])]]

\* C6 as stated: when a root rule source NAME ( or source NAME from "path" (
\* (root rules 6 and 7) matches, two entries are pushed and sourcelist becomes
\* the active state; while sourcelist is active, ( pushes it again, ) pops,
\* and nothing else changes the stack.
C6_AsStated ==
  /\ (last.kind = "rule" /\ Top(last.stack) = "root" /\ last.rule \in {6, 7}) =>
       /\ Len(statestack) = Len(last.stack) + 2
       /\ Top(statestack) = "sourcelist"
  /\ (Stepped /\ Top(last.stack) = "sourcelist") =>
       statestack = IF text[last.pos + 1] = "(" THEN Append(last.stack, "sourcelist")
                    ELSE IF text[last.pos + 1] = ")"
                         THEN SubSeq(last.stack, 1, Len(last.stack) - 1)
                    ELSE last.stack

\* source R ("f" as g)
SourceAliasText ==
  <<"s", "o", "u", "r", "c", "e", " ", "R", " ", "(", "\"", "f", "\"", " ", "a", "s", " ",
    "g", ")">>

\* C7 as stated: source R ("f" as g) is emitted as Keyword source, Whitespace,
\* Name R, Whitespace, Text (, String "f", Whitespace, Keyword as, Whitespace,
\* Name g, Text ).
C7_AsStated ==
  (done /\ text = SourceAliasText) =>
    Cats(out) = Cut(text,
                    <<"Keyword", Whitespace, Name, Whitespace, Text, String, Whitespace,
                      "Keyword", Whitespace, Name, Text>>,
                    <<6, 7, 8, 9, 10, 13, 14, 16, 17, 18, 19>>)

\* module
ModuleWord == <<"m", "o", "d", "u", "l", "e">>

\* where the whitespace that follows the word module ends
NameStart(s) ==
  CHOOSE q \in 6..Len(s) :
    /\ \A i \in 7..q : s[i] \in Space
    /\ q = Len(s) \/ s[q + 1] \notin Space

\* the text is module, whitespace and a dotted name: a letter, then letters
\* and dots
IsModuleDecl(s) ==
  /\ StartsWith(s, 0, ModuleWord)
  /\ NameStart(s) > 6
  /\ NameStart(s) < Len(s)
  /\ s[NameStart(s) + 1] \in Alpha
  /\ \A i \in (NameStart(s) + 1)..Len(s) : s[i] \in Alpha \cup {"."}

\* Keyword module, one Whitespace span, one Name span over the whole name,
\* and root active afterwards
ModuleSpans ==
  /\ Cats(out) = Cut(text, <<"Keyword", Whitespace, Name>>,
                     <<6, NameStart(text), Len(text)>>)
  /\ statestack = <<"root">>

\* C8 as stated: for module, whitespace and a dotted module name, names that
\* begin with an upper-case letter included, the spans are exactly Keyword
\* module, one Whitespace span and one Name span covering the whole name, and
\* root is active afterwards.
C8_AsStated == (done /\ IsModuleDecl(text)) => ModuleSpans

\* C8 amended: the same for module names that begin with a lower-case letter.
C8_Module ==
  (done /\ IsModuleDecl(text) /\ text[NameStart(text) + 1] \in Ll) => ModuleSpans

\* a module declaration with a dotted lower-case name has been tokenized
C8_Witness ==
  /\ done
  /\ IsModuleDecl(text)
  /\ text[NameStart(text) + 1] \in Ll
  /\ \E i \in 1..Len(text) : text[i] = "."

\* import (A, B)
ImportListText ==
  <<"i", "m", "p", "o", "r", "t", " ", "(", "A", ",", " ", "B", ")">>

\* C9 as stated: in import (A, B), import is emitted as a Keyword span,
\* importList is the active state after the (, the parentheses and the comma
\* are Punctuation, the names are Name, and the closing ) returns the stack to
\* [root].
C9_AsStated ==
  text = ImportListText =>
    /\ pos >= 6 => Cats(SubSeq(out, 1, 1)) = Cut(text, <<"Keyword">>, <<6>>)
    /\ pos = 8 => Top(statestack) = "importList"
    /\ done =>
         /\ Cats(out) = Cut(text,
                            <<"Keyword", Whitespace, Punctuation, Name, Punctuation,
                              Whitespace, Name, Punctuation>>,
                            <<6, 7, 8, 9, 10, 11, 12, 13>>)
         /\ statestack = <<"root">>

RECURSIVE NestAt(_, _, _, _), CloseAt(_, _, _)

\* the number of unclosed {- at position p of a text that opens a block
\* comment at 0, counting delimiters from position i at depth d; the count
\* ends where the opening {- is closed
NestAt(s, i, d, p) ==
  IF i >= p \/ (i > 0 /\ d = 0) THEN d
  ELSE IF StartsWith(s, i, <<"{", "-">>) THEN NestAt(s, i + 2, d + 1, p)
  ELSE IF StartsWith(s, i, <<"-", "}">>) THEN NestAt(s, i + 2, d - 1, p)
  ELSE NestAt(s, i + 1, d, p)

\* the position just after the -} that closes the {- at 0; Len(s) + 1 when
\* it is never closed
CloseAt(s, i, d) ==
  IF i > 0 /\ d = 0 THEN i
  ELSE IF i >= Len(s) THEN Len(s) + 1
  ELSE IF StartsWith(s, i, <<"{", "-">>) THEN CloseAt(s, i + 2, d + 1)
  ELSE IF StartsWith(s, i, <<"-", "}">>) THEN CloseAt(s, i + 2, d - 1)
  ELSE CloseAt(s, i + 1, d)

\* C10: in a text that starts with {-, up to the -} that closes it: every
\* emitted span is a Comment span and every step applies a rule; the stack is
\* root below one comment entry per unclosed {-; root is active again exactly
\* after the closing -}.
C10_NestedComments ==
  (StartsWith(text, 0, <<"{", "-">>) /\ pos <= CloseAt(text, 0, 0)) =>
    /\ Len(statestack) = 1 + NestAt(text, 0, 0, pos)
    /\ \A k \in 1..Len(statestack) :
         statestack[k] = IF k = 1 THEN "root" ELSE "comment"
    /\ (Top(statestack) = "root") <=> (pos = 0 \/ pos = CloseAt(text, 0, 0))
    /\ \A i \in 1..Len(out) : IsComment(out[i].tok)
    /\ Stepped => last.kind = "rule"

\* a block comment nested three deep has just been closed
C10_Witness ==
  /\ StartsWith(text, 0, <<"{", "-">>)
  /\ pos = CloseAt(text, 0, 0)
  /\ \E p \in 0..pos : NestAt(text, 0, 0, p) >= 3

\* C11: the state stack is never empty and its bottom entry is root, whatever
\* closing ) or -} the text holds.
C11_Floor == Len(statestack) >= 1 /\ statestack[1] = "root"

\* a closing ) or } has been consumed with root alone on the stack, after an
\* earlier ) or -} popped a state
C11_Witness ==
  /\ Stepped
  /\ last.stack = <<"root">>
  /\ text[last.pos + 1] \in {")", "}"}
  /\ \E i \in 1..last.nout :
       \/ out[i].tok = Text /\ out[i].val = <<")">>
       \/ out[i].tok = "Comment.Multiline" /\ out[i].val = <<"-", "}">>

\* C12 as stated: the step taken just after the backslash that entered
\* escape always leaves escape and makes string the active state again.
C12_AsStated ==
  (Stepped /\ Top(last.stack) = "escape" /\ last.pos > 0 /\ text[last.pos] = "\\") =>
    /\ Top(statestack) = "string"
    /\ statestack = SubSeq(last.stack, 1, Len(last.stack) - 1)

\* C12 amended: a step in escape that applies a rule pops escape and makes
\* string the active state again; a step that finds no rule leaves escape
\* active when it yields an Error span, and resets the stack to root at a
\* newline.
C12_Escape ==
  (Stepped /\ Top(last.stack) = "escape") =>
    /\ last.stack[Len(last.stack) - 1] = "string"
    /\ last.kind = "rule" =>
         /\ Top(statestack) = "string"
         /\ statestack = SubSeq(last.stack, 1, Len(last.stack) - 1)
    /\ last.kind = "error" => statestack = last.stack
    /\ last.kind = "newline" => statestack = <<"root">>

\* a hexadecimal escape has been matched just after the backslash
C12_Witness ==
  /\ last.kind = "rule"
  /\ Top(last.stack) = "escape"
  /\ last.rule = 4
  /\ text[last.pos] = "\\"
  /\ Top(statestack) = "string"

\* all calls: the running one and the suspended ones
AllCalls == <<Frame>> \o calls

\* C13: each call starts at cursor 0 with the stack [root] and no span; two
\* calls on the same text that have come equally far have yielded the same
\* spans and hold the same stack, whatever other calls ran in between; so two
\* finished calls on the same text have yielded the same span sequence.
C13_Isolation ==
  \A i \in 1..Len(AllCalls) :
    /\ AllCalls[i].last.kind = "init" =>
         /\ AllCalls[i].pos = 0
         /\ AllCalls[i].statestack = <<"root">>
         /\ AllCalls[i].out = <<>>
    /\ \A j \in 1..Len(AllCalls) :
         (/\ AllCalls[i].text = AllCalls[j].text
          /\ AllCalls[i].pos = AllCalls[j].pos
          /\ AllCalls[i].done = AllCalls[j].done) =>
           /\ AllCalls[i].out = AllCalls[j].out
           /\ AllCalls[i].statestack = AllCalls[j].statestack

\* two calls on the same text have finished, and a call on another text has
\* yielded spans and has a stack deeper than [root]
C13_Witness ==
  /\ done
  /\ out # <<>>
  /\ \E i, j \in 1..Len(calls) :
       /\ calls[i].text = text
       /\ calls[i].done
       /\ calls[j].text # text
       /\ calls[j].out # <<>>
       /\ Len(calls[j].statestack) > 1

\* where the digits that start after position p end (p when there is none)
DigitsEnd(s, p) ==
  IF p >= Len(s) THEN p
  ELSE CHOOSE q \in p..Len(s) :
         /\ \A i \in (p + 1)..q : s[i] \in Digit
         /\ q = Len(s) \/ s[q + 1] \notin Digit

\* where the literal digits . digits exponent that starts at p ends, the
\* exponent being e or E, an optional sign and digits; 0 when no such literal
\* starts at p
FloatLitEnd(s, p) ==
  LET a == DigitsEnd(s, p)
      b == DigitsEnd(s, a + 1)
      d == IF b + 2 <= Len(s) /\ s[b + 2] \in {"+", "-"} THEN b + 2 ELSE b + 1
      f == DigitsEnd(s, d)
  IN  IF /\ a > p
         /\ a < Len(s)
         /\ s[a + 1] = "."
         /\ b > a + 1
         /\ b < Len(s)
         /\ s[b + 1] \in {"e", "E"}
         /\ f > d
      THEN f ELSE 0

\* C14: a step taken in root at the start of a literal digits . digits
\* exponent applies a rule that yields one Number.Float span over the whole
\* literal and moves the cursor to its end.
C14_Float ==
  (Stepped /\ Top(last.stack) = "root" /\ FloatLitEnd(text, last.pos) > 0) =>
    /\ last.kind = "rule"
    /\ LastSpans = <<Span(text, last.pos, FloatLitEnd(text, last.pos), "Number.Float")>>
    /\ pos = FloatLitEnd(text, last.pos)

\* a float literal with a signed exponent has been emitted, other text
\* following it
C14_Witness ==
  /\ last.kind = "rule"
  /\ Top(last.stack) = "root"
  /\ FloatLitEnd(text, last.pos) = pos
  /\ pos > 0
  /\ pos < Len(text)
  /\ \E i \in (last.pos + 1)..pos : text[i] = "-"

\* where the line that holds position p ends: the next newline, or the end
\* of the text
LineEnd(s, p) ==
  CHOOSE q \in p..Len(s) :
    /\ \A i \in (p + 1)..q : s[i] # "\n"
    /\ q = Len(s) \/ s[q + 1] = "\n"

\* C15: a step taken in root with -- at the cursor applies a rule that yields
\* exactly one Comment span, from the -- to the end of the line without its
\* newline, and leaves the state stack as it was.
C15_LineComment ==
  (Stepped /\ Top(last.stack) = "root" /\ StartsWith(text, last.pos, <<"-", "-">>)) =>
    /\ last.kind = "rule"
    /\ LastSpans = <<Span(text, last.pos, LineEnd(text, last.pos), "Comment.Single")>>
    /\ IsComment(LastSpans[1].tok)
    /\ pos = LineEnd(text, last.pos)
    /\ statestack = last.stack

\* a line comment that holds {- and a quote has been emitted up to the
\* newline that follows it
C15_Witness ==
  /\ last.kind = "rule"
  /\ Top(last.stack) = "root"
  /\ StartsWith(text, last.pos, <<"-", "-">>)
  /\ pos < Len(text)
  /\ \E i \in (last.pos + 3)..pos : text[i] = "\""

\* where the whitespace that starts after position p ends (p when there is
\* none)
SpaceEnd(s, p) ==
  IF p >= Len(s) THEN p
  ELSE CHOOSE q \in p..Len(s) :
         /\ \A i \in (p + 1)..q : s[i] \in Space
         /\ q = Len(s) \/ s[q + 1] \notin Space

\* export
ExportWord == <<"e", "x", "p", "o", "r", "t">>

\* at p the text has export, whitespace and a character of an identifier
ExportAt(s, p) ==
  /\ StartsWith(s, p, ExportWord)
  /\ SpaceEnd(s, p + 6) > p + 6
  /\ SpaceEnd(s, p + 6) < Len(s)
  /\ s[SpaceEnd(s, p + 6) + 1] \in Word

\* C16: a step taken in root at the start of a line that has export,
\* whitespace and an identifier applies the export rule (root rule 9), which
\* yields Keyword export, Whitespace and a Name span of the identifier's first
\* character alone, and leaves the cursor just after that character; and the
\* export rule is applied at the start of a line only.
C16_Export ==
  /\ (/\ Stepped
      /\ Top(last.stack) = "root"
      /\ last.pos = 0 \/ text[last.pos] = "\n"
      /\ ExportAt(text, last.pos)) =>
       /\ last.kind = "rule"
       /\ last.rule = 9
       /\ Cats(LastSpans)
            = << [cat |-> "Keyword", val |-> ExportWord],
                 [cat |-> Whitespace,
                  val |-> SubSeq(text, last.pos + 7, SpaceEnd(text, last.pos + 6))],
                 [cat |-> Name, val |-> <<text[SpaceEnd(text, last.pos + 6) + 1]>>] >>
       /\ pos = SpaceEnd(text, last.pos + 6) + 1
  /\ (last.kind = "rule" /\ Top(last.stack) = "root" /\ last.rule = 9) =>
       last.pos = 0 \/ text[last.pos] = "\n"
  /\ (/\ Stepped
      /\ Top(last.stack) = "root"
      /\ last.pos > 0
      /\ text[last.pos] # "\n"
      /\ StartsWith(text, last.pos, ExportWord)) =>
       /\ last.kind = "rule"
       /\ last.rule = 13
       /\ Toks(LastSpans) = <<Name>>

\* the export rule has been applied on a line after the first, and the
\* identifier goes on after the character it took
C16_Witness ==
  /\ last.kind = "rule"
  /\ Top(last.stack) = "root"
  /\ last.rule = 9
  /\ last.pos > 0
  /\ pos < Len(text)
  /\ text[pos + 1] \in Word

\* C17: every span yielded has at least one character: a group of a grouped
\* rule that matched the empty string yields no span.
C17_NoEmptySpan == \A i \in 1..Len(out) : Len(out[i].val) >= 1

\* a grouped rule of root whose optional whitespace group matched the empty
\* string (source NAME( or record Name=) has yielded one span fewer than it
\* has groups
C17_Witness ==
  /\ last.kind = "rule"
  /\ Top(last.stack) = "root"
  /\ last.rule \in {6, 12}
  /\ Len(LastSpans) = 4

RECURSIVE ParenAt(_, _, _, _), ParenClose(_, _, _)

\* the number of unclosed ( at position p, counting the parentheses from
\* position i at depth d; the count ends where the depth reaches 0
ParenAt(s, i, d, p) ==
  IF i >= p \/ d = 0 THEN d
  ELSE IF s[i + 1] = "(" THEN ParenAt(s, i + 1, d + 1, p)
  ELSE IF s[i + 1] = ")" THEN ParenAt(s, i + 1, d - 1, p)
  ELSE ParenAt(s, i + 1, d, p)

\* the position just after the ) at which the depth reaches 0; Len(s) + 1
\* when it never does
ParenClose(s, i, d) ==
  IF d = 0 THEN i
  ELSE IF i >= Len(s) THEN Len(s) + 1
  ELSE IF s[i + 1] = "(" THEN ParenClose(s, i + 1, d + 1)
  ELSE IF s[i + 1] = ")" THEN ParenClose(s, i + 1, d - 1)
  ELSE ParenClose(s, i + 1, d)

\* C18: in a text that starts with import(, from the ( up to the ) that
\* matches it, the stack is root below one importList entry for the ( of
\* import( and one for each unclosed inner (, and root is active again exactly
\* after the matching ).
C18_ImportNesting ==
  (/\ StartsWith(text, 0, ImportOpen)
   /\ pos >= 7
   /\ pos <= ParenClose(text, 7, 1)) =>
    /\ statestack = <<"root">> \o [k \in 1..ParenAt(text, 7, 1, pos) |-> "importList"]
    /\ (Top(statestack) = "root") <=> (pos = ParenClose(text, 7, 1))

\* the ) that matches the ( of import( has been reached after parentheses
\* nested three deep
C18_Witness ==
  /\ StartsWith(text, 0, ImportOpen)
  /\ pos = ParenClose(text, 7, 1)
  /\ statestack = <<"root">>
  /\ \E p \in 7..pos : ParenAt(text, 7, 1, p) >= 3

\* C19: while comment or string is the active state, a rule matches at every
\* cursor position before the end of the text, so a step taken in comment or
\* string applies a rule and yields no Error span.
C19_Total ==
  /\ (Top(statestack) \in {"comment", "string"} /\ pos < Len(text)) => found.i # 0
  /\ (Stepped /\ Top(last.stack) \in {"comment", "string"}) =>
       /\ last.kind = "rule"
       /\ \A i \in 1..Len(LastSpans) : LastSpans[i].tok # Error

\* a newline has been consumed by a rule of string
C19_Witness ==
  /\ last.kind = "rule"
  /\ Top(last.stack) = "string"
  /\ \E i \in (last.pos + 1)..pos : text[i] = "\n"

\* C20: wherever in the text the alias rule of sourcelist (rule 6) matches,
\* the quoted-string rule before it (rule 4) matches too; so with sourcelist
\* active the alias rule is never the rule applied, and no step taken in
\* sourcelist yields a Keyword span.
C20_AliasShadowed ==
  /\ \A p \in 0..Len(text) :
       RexMatch(sourcelist[6], text, p) # <<>> => RexMatch(sourcelist[4], text, p) # <<>>
  /\ Top(statestack) = "sourcelist" => found.i # 6
  /\ (Stepped /\ Top(last.stack) = "sourcelist") =>
       /\ last.rule # 6
       /\ \A i \in 1..Len(LastSpans) : ~IsKeyword(LastSpans[i].tok)

\* sourcelist is active at a cursor where the alias rule matches, and the
\* quoted-string rule is the first that matches there
C20_Witness ==
  /\ Top(statestack) = "sourcelist"
  /\ RexMatch(sourcelist[6], text, pos) # <<>>
  /\ found.i = 4
  /\ pos > 0

====
